---- MODULE Spec2Model ----
(***************************************************************************)
(* A model of the prefixed text formatter for logrus (src/formatter.go).   *)
(*                                                                         *)
(* Text is a sequence of one-character strings.  An ANSI escape sequence   *)
(* produced by the styling library is one element of the sequence (for     *)
(* instance "ESC[0;32m") so that styled output stays readable.             *)
(***************************************************************************)
EXTENDS Integers, Sequences, FiniteSets, TLC

\* ------------------------------------------------------------------ bounds
\* Longest message handed to extractPrefix in SpecPrefix.
MaxMsgLen == 4
\* Largest value miniTS() returns (whole seconds since start-up).
MaxTS == 1
\* Number of goroutines calling Format concurrently in SpecConc.
NumGoroutines == 2

\* ----------------------------------------------------------------- strings
Range(s) == {s[i] : i \in 1..Len(s)}

Lower == <<"a","b","c","d","e","f","g","h","i","j","k","l","m",
           "n","o","p","q","r","s","t","u","v","w","x","y","z">>
Upper == <<"A","B","C","D","E","F","G","H","I","J","K","L","M",
           "N","O","P","Q","R","S","T","U","V","W","X","Y","Z">>
Digits == <<"0","1","2","3","4","5","6","7","8","9">>
Punctuation == {"\t", "\n", " ", "\"", "-", ".", ":", "=", "[", "]"}

Chars == Range(Lower) \cup Range(Upper) \cup Range(Digits) \cup Punctuation

IndexOf(s, c) == CHOOSE i \in 1..Len(s) : s[i] = c

\* The byte value of each character (ASCII).
CodeTable ==
  [c \in Chars |->
     IF c \in Range(Lower) THEN 96 + IndexOf(Lower, c)
     ELSE IF c \in Range(Upper) THEN 64 + IndexOf(Upper, c)
     ELSE IF c \in Range(Digits) THEN 47 + IndexOf(Digits, c)
     ELSE CASE c = "\t" -> 9
            [] c = "\n" -> 10
            [] c = " "  -> 32
            [] c = "\"" -> 34
            [] c = "-"  -> 45
            [] c = "."  -> 46
            [] c = ":"  -> 58
            [] c = "="  -> 61
            [] c = "["  -> 91
            [] c = "]"  -> 93]

Code(c) == CodeTable[c]

UpperTable == [c \in Range(Lower) |-> Upper[IndexOf(Lower, c)]]

\* strings.ToUpper on ASCII text.
ToUpper(s) ==
  [i \in 1..Len(s) |-> IF s[i] \in DOMAIN UpperTable THEN UpperTable[s[i]] ELSE s[i]]

\* Go's string comparison a < b: bytewise lexicographic.
RECURSIVE StrLess(_, _)
StrLess(a, b) ==
  IF b = <<>> THEN FALSE
  ELSE IF a = <<>> THEN TRUE
  ELSE IF Code(Head(a)) # Code(Head(b)) THEN Code(Head(a)) < Code(Head(b))
  ELSE StrLess(Tail(a), Tail(b))

\* sort.Strings: insertion of each element into the sorted prefix.
RECURSIVE InsertSorted(_, _)
InsertSorted(k, sorted) ==
  IF sorted = <<>> THEN <<k>>
  ELSE IF StrLess(k, Head(sorted)) \/ k = Head(sorted) THEN <<k>> \o sorted
  ELSE <<Head(sorted)>> \o InsertSorted(k, Tail(sorted))

RECURSIVE SortStrings(_)
SortStrings(keys) ==
  IF keys = <<>> THEN <<>>
  ELSE InsertSorted(Head(keys), SortStrings(Tail(keys)))

\* unicode.IsSpace on the characters of the model.
IsSpace(c) == c \in {" ", "\t", "\n"}

\* strings.TrimSpace
RECURSIVE TrimLeft(_)
TrimLeft(s) == IF s # <<>> /\ IsSpace(Head(s)) THEN TrimLeft(Tail(s)) ELSE s

RECURSIVE TrimRight(_)
TrimRight(s) ==
  IF s # <<>> /\ IsSpace(s[Len(s)]) THEN TrimRight(SubSeq(s, 1, Len(s) - 1)) ELSE s

TrimSpace(s) == TrimRight(TrimLeft(s))

\* --------------------------------------------------------- extractPrefix
\* regexp "^\[(.*?)\]": the end of the leftmost, shortest match starting at
\* position 1, or 0 when there is none.  "." does not match a newline.
RECURSIVE ScanLazy(_, _)
ScanLazy(msg, i) ==
  IF i > Len(msg) THEN 0
  ELSE IF msg[i] = "]" THEN i
  ELSE IF msg[i] = "\n" THEN 0
  ELSE ScanLazy(msg, i + 1)

\* A mutation of the pattern: "^\[(.*)\]", the greedy form, which runs to
\* the last "]" that no newline precedes.
RECURSIVE ScanGreedyFrom(_, _, _)
ScanGreedyFrom(msg, i, best) ==
  IF i > Len(msg) THEN best
  ELSE IF msg[i] = "\n" THEN best
  ELSE ScanGreedyFrom(msg, i + 1, IF msg[i] = "]" THEN i ELSE best)

RegexMatchEndGreedy(msg) ==
  IF msg # <<>> /\ Head(msg) = "[" THEN ScanGreedyFrom(msg, 2, 0) ELSE 0

RegexMatchEnd(msg) ==
  IF msg # <<>> /\ Head(msg) = "[" THEN ScanLazy(msg, 2) ELSE 0

extractPrefix(msg) ==
  LET e == RegexMatchEnd(msg) IN
  IF e > 0
    THEN [prefix |-> SubSeq(msg, 2, e - 1),
          msg    |-> TrimSpace(SubSeq(msg, e + 1, Len(msg)))]
    ELSE [prefix |-> <<>>, msg |-> msg]

\* ------------------------------------------------------- styling (ansi)
\* const reset = ansi.Reset
reset == "ESC[0m"
\* ansi.LightBlack
LightBlack == "ESC[0;90m"

Styles == {"green", "yellow", "red", "blue", "cyan", "black+h"}

\* ansi.ColorCode(style) for the styles in use.
ColorCode(style) ==
  CASE style = "green"   -> "ESC[0;32m"
    [] style = "yellow"  -> "ESC[0;33m"
    [] style = "red"     -> "ESC[0;31m"
    [] style = "blue"    -> "ESC[0;34m"
    [] style = "cyan"    -> "ESC[0;36m"
    [] style = "black+h" -> "ESC[0;90m"

EscapeCodes == {reset} \cup {ColorCode(st) : st \in Styles}

\* ansi.ColorFunc(style): the closure it returns, as the values it closes
\* over.  The empty style gives the function that returns its argument.
ColorFunc(style) ==
  IF style = "" THEN [plain |-> TRUE, code |-> ""]
  ELSE [plain |-> FALSE, code |-> ColorCode(style)]

\* Calling a function returned by ansi.ColorFunc.
Apply(fn, s) ==
  IF fn.plain \/ s = <<>> THEN s ELSE <<fn.code>> \o s \o <<reset>>

\* fmt's rendering of a func value under the verb %s (lines 224, 226 and 232
\* pass levelColor itself, not its result): "%!s(func(string) string=0x...)"
\* with the code pointer of the closure, which is one value for the identity
\* closure and another for the colouring one.
BadVerbFunc(fn) ==
  IF fn.plain THEN <<"%!s(func(string) string=0xIDENTITY)">>
  ELSE <<"%!s(func(string) string=0xCOLORING)">>

Roles == {"InfoLevel", "WarnLevel", "ErrorLevel", "FatalLevel", "PanicLevel",
          "DebugLevel", "Prefix", "Timestamp"}

\* var defaultColorScheme *ColorScheme = &ColorScheme{...}
defaultStyles ==
  [InfoLevel |-> "green", WarnLevel |-> "yellow", ErrorLevel |-> "red",
   FatalLevel |-> "red", PanicLevel |-> "red", DebugLevel |-> "blue",
   Prefix |-> "cyan", Timestamp |-> "black+h"]

compileColorScheme(s) == [r \in Roles |-> ColorFunc(s[r])]

\* func init(): defaultColorScheme = compileColorScheme(defaultColorScheme)
defaultColorScheme == compileColorScheme(defaultStyles)

\* The nil *compiledColorScheme.
NilScheme == [nil |-> TRUE]

\* ------------------------------------------------------------ fmt helpers
\* Rune count of a text: an escape sequence counts its own characters.
RECURSIVE RuneCount(_)
RuneCount(s) ==
  IF s = <<>> THEN 0
  ELSE (IF Head(s) = reset THEN 4 ELSE IF Head(s) \in EscapeCodes THEN 7 ELSE 1)
       + RuneCount(Tail(s))

Spaces(n) == [i \in 1..n |-> " "]

\* %+5s and, in general, %<w>s: right-justified in a field of w runes.
PadLeft(s, w) == IF RuneCount(s) >= w THEN s ELSE Spaces(w - RuneCount(s)) \o s

\* %-<w>s: left-justified in a field of w runes.
PadRight(s, w) == IF RuneCount(s) >= w THEN s ELSE s \o Spaces(w - RuneCount(s))

\* %04d of a small non-negative integer.
Digit(n) == Digits[n + 1]
Pad04d(n) ==
  <<Digit((n \div 1000) % 10), Digit((n \div 100) % 10),
    Digit((n \div 10) % 10), Digit(n % 10)>>

\* %q of a string: Go-syntax quoting with the escapes the model's characters need.
RECURSIVE GoEscape(_)
GoEscape(s) ==
  IF s = <<>> THEN <<>>
  ELSE (CASE Head(s) = "\"" -> <<"\\", "\"">>
          [] Head(s) = "\n" -> <<"\\", "n">>
          [] Head(s) = "\t" -> <<"\\", "t">>
          [] OTHER -> <<Head(s)>>) \o GoEscape(Tail(s))

GoQuote(s) == <<"\"">> \o GoEscape(s) \o <<"\"">>

\* A field value: a string, an error (text is its Error()) or anything else
\* (text is its default print representation).
Str(t) == [kind |-> "string", text |-> t]
Err(t) == [kind |-> "error", text |-> t]
Oth(t) == [kind |-> "other", text |-> t]

\* fmt.Fprint(b, v) and the verb %+v for the values of the model.
Sprint(v) == v.text

\* ----------------------------------------------------------- field names
kTime == <<"t","i","m","e">>
kMsg == <<"m","s","g">>
kLevel == <<"l","e","v","e","l">>
kPrefix == <<"p","r","e","f","i","x">>
kFields == <<"f","i","e","l","d","s",".">>

\* -------------------------------------------------------- quoting, pairs
needsQuoting(f, text) ==
  \/ f.QuoteEmptyFields /\ Len(text) = 0
  \/ \E i \in 1..Len(text) :
       LET ch == Code(text[i]) IN
       ~ \/ (ch >= Code("a") /\ ch <= Code("z"))
         \/ (ch >= Code("A") /\ ch <= Code("Z"))
         \/ (ch >= Code("0") /\ ch <= Code("9"))
         \/ ch = Code("-") \/ ch = Code(".")

\* appendKeyValue: the bytes it writes.  The two branches on needsQuoting
\* are as the source has them: raw when it answers true, %q when false.
appendKeyValue(f, key, value) ==
  key \o <<"=">> \o
  (CASE value.kind = "string" ->
          IF needsQuoting(f, value.text) THEN value.text ELSE GoQuote(value.text)
     [] value.kind = "error" ->
          IF needsQuoting(f, value.text) THEN value.text ELSE GoQuote(value.text)
     [] OTHER -> Sprint(value))
  \o <<" ">>

\* ----------------------------------------------------- prefixFieldClashes
MapSet(d, k, v) == [x \in (DOMAIN d) \cup {k} |-> IF x = k THEN v ELSE d[x]]

prefixFieldClashes(data) ==
  LET d1 == IF kTime \in DOMAIN data
              THEN MapSet(data, kFields \o kTime, data[kTime]) ELSE data
      d2 == IF kMsg \in DOMAIN d1
              THEN MapSet(d1, kFields \o kMsg, d1[kMsg]) ELSE d1
      d3 == IF kLevel \in DOMAIN d2
              THEN MapSet(d2, kFields \o kLevel, d2[kLevel]) ELSE d2
  IN d3

\* ------------------------------------------------------------- logrus
Levels == {"Panic", "Fatal", "Error", "Warn", "Info", "Debug"}

\* logrus.Level.String()
LevelString(level) ==
  CASE level = "Debug" -> <<"d","e","b","u","g">>
    [] level = "Info"  -> <<"i","n","f","o">>
    [] level = "Warn"  -> <<"w","a","r","n","i","n","g">>
    [] level = "Error" -> <<"e","r","r","o","r">>
    [] level = "Fatal" -> <<"f","a","t","a","l">>
    [] level = "Panic" -> <<"p","a","n","i","c">>

\* logrus.DefaultTimestampFormat (time.RFC3339) is the empty layout's
\* replacement; the other layout of the model is a short custom one.
DefaultTimestampFormat == <<"R","F","C">>
CustomTimestampFormat == <<"3","P","M">>

\* entry.Time.Format(layout): instants are small numbers; the default layout
\* renders with a colon, as RFC3339 does, the custom one without.
TimeFormat(t, layout) ==
  IF layout = DefaultTimestampFormat THEN <<Digit(t), ":", "0", "0">>
  ELSE <<Digit(t), "P", "M">>

\* logrus.IsTerminal(entry.Logger.Out)
IsTerminal(logger) == logger = "tty"

\* The nil *bytes.Buffer of an entry, and a buffer holding bytes.
NilBuffer == [nil |-> TRUE, bytes |-> <<>>]
Buffer(bs) == [nil |-> FALSE, bytes |-> bs]

\* ------------------------------------------------------------ formatter
\* func (f *TextFormatter) init(entry *logrus.Entry), its two statements
initQuoteCharacter(f) ==
  IF Len(f.QuoteCharacter) = 0 THEN [f EXCEPT !.QuoteCharacter = <<"\"">>] ELSE f

initIsTerminal(f, entry) ==
  IF entry.Logger # "nil"
    THEN [f EXCEPT !.isTerminal = IsTerminal(entry.Logger)] ELSE f

init(f, entry) == initIsTerminal(initQuoteCharacter(f), entry)

\* A mutation of f.Do(...): the initializer runs on every call.
OnceDoEveryCall(f, entry) == [init(f, entry) EXCEPT !.done = TRUE]

\* f.Do(func() { f.init(entry) }) when no other call is in progress.
OnceDo(f, entry) ==
  IF f.done THEN f ELSE [init(f, entry) EXCEPT !.done = TRUE]

\* isColored := (f.ForceColors || f.isTerminal) && !f.DisableColors
isColored(f) == (f.ForceColors \/ f.isTerminal) /\ ~f.DisableColors

\* timestampFormat := f.TimestampFormat, or the default when empty
timestampFormat(f) ==
  IF f.TimestampFormat = <<>> THEN DefaultTimestampFormat ELSE f.TimestampFormat

LevelRole(level) ==
  CASE level = "Info"  -> "InfoLevel"
    [] level = "Warn"  -> "WarnLevel"
    [] level = "Error" -> "ErrorLevel"
    [] level = "Fatal" -> "FatalLevel"
    [] level = "Panic" -> "PanicLevel"
    [] OTHER -> "DebugLevel"

levelText(level) ==
  IF level # "Warn" THEN ToUpper(LevelString(level)) ELSE <<"W","A","R","N">>

\* The prefix and the message printColored prints (lines 202-213).
prefixAndMessage(f, entry) ==
  IF kPrefix \in DOMAIN entry.Data
    THEN [prefix  |-> <<" ">> \o Apply(f.colorScheme["Prefix"],
                                       Sprint(entry.Data[kPrefix]) \o <<":">>),
          message |-> entry.Message]
    ELSE LET ep == extractPrefix(entry.Message) IN
         IF Len(ep.prefix) > 0
           THEN [prefix  |-> <<" ">> \o Apply(f.colorScheme["Prefix"],
                                              ep.prefix \o <<":">>),
                 message |-> ep.msg]
           ELSE [prefix |-> <<>>, message |-> entry.Message]

\* One field as printColored writes it (line 232).
coloredPair(levelColor, k, v) ==
  <<" ">> \o BadVerbFunc(levelColor) \o k \o <<reset, "=">> \o Sprint(v)

RECURSIVE coloredFields(_, _, _)
coloredFields(levelColor, keys, data) ==
  IF keys = <<>> THEN <<>>
  ELSE (IF Head(keys) # kPrefix
          THEN coloredPair(levelColor, Head(keys), data[Head(keys)]) ELSE <<>>)
       \o coloredFields(levelColor, Tail(keys), data)

\* printColored: the bytes it writes; reached only with a non-nil scheme.
printColored(f, entry, keys, tsFormat, ts) ==
  LET levelColor == f.colorScheme[LevelRole(entry.Level)]
      pm == prefixAndMessage(f, entry)
      message == IF f.SpacePadding # 0
                   THEN PadRight(pm.message, f.SpacePadding) ELSE pm.message
      head ==
        IF f.DisableTimestamp
          THEN PadLeft(Apply(levelColor, levelText(entry.Level)), 5)
               \o pm.prefix \o <<" ">> \o message
          ELSE <<LightBlack, "[">>
               \o (IF f.ShortTimestamp THEN Pad04d(ts)
                   ELSE TimeFormat(entry.Time, tsFormat))
               \o <<"]", reset, " ">> \o BadVerbFunc(levelColor)
               \o PadLeft(levelText(entry.Level), 5) \o <<reset>>
               \o pm.prefix \o <<" ">> \o message
  IN head \o coloredFields(levelColor, keys, entry.Data)

RECURSIVE plainFields(_, _, _)
plainFields(f, keys, data) ==
  IF keys = <<>> THEN <<>>
  ELSE appendKeyValue(f, Head(keys), data[Head(keys)])
       \o plainFields(f, Tail(keys), data)

\* The else branch of Format (lines 162-171).
printPlain(f, entry, keys, tsFormat) ==
  (IF ~f.DisableTimestamp
     THEN appendKeyValue(f, kTime, Str(TimeFormat(entry.Time, tsFormat)))
     ELSE <<>>)
  \o appendKeyValue(f, kLevel, Str(LevelString(entry.Level)))
  \o (IF entry.Message # <<>>
        THEN appendKeyValue(f, kMsg, Str(entry.Message)) ELSE <<>>)
  \o plainFields(f, keys, entry.Data)

\* The orders in which "for k := range entry.Data" can visit the keys.
Orders(S) ==
  {o \in [1..Cardinality(S) -> S] : \A i, j \in 1..Cardinality(S) : o[i] = o[j] => i = j}

\* A mutation of lines 140-142: the flag is read the wrong way round.
sortedKeysInverted(f, order) == IF f.DisableSorting THEN SortStrings(order) ELSE order

\* if !f.DisableSorting { sort.Strings(keys) }
sortedKeys(f, order) == IF ~f.DisableSorting THEN SortStrings(order) ELSE order

\* A mutation of lines 135-142: the keys are left in iteration order.
unsortedKeys(f, order) == order

\* The keys Format works with (lines 135-142), the mapping being visited
\* in `order`.
collectKeys(f, order) == sortedKeys(f, order)

\* Format from line 153 on, once f.Do has returned: what the call returns
\* and the entry's buffer afterwards.  A nil colorScheme makes printColored
\* panic at its first statement (a nil pointer dereference), before it
\* writes anything.
FormatTail(f1, e1, keys, ts) ==
  LET colored == isColored(f1)
      panics == colored /\ f1.colorScheme = NilScheme
      text == IF colored THEN printColored(f1, e1, keys, timestampFormat(f1), ts)
              ELSE printPlain(f1, e1, keys, timestampFormat(f1))
      bytes == e1.Buffer.bytes \o text \o <<"\n">>
  IN [entry |-> IF panics \/ e1.Buffer.nil THEN e1
                ELSE [e1 EXCEPT !.Buffer = Buffer(bytes)],
      ret |-> IF panics
                THEN [panicked |-> TRUE, colored |-> colored, out |-> <<>>, err |-> "none"]
                ELSE [panicked |-> FALSE, colored |-> colored, out |-> bytes, err |-> "nil"]]

\* Format(entry) as one call, for an entry whose mapping is visited in
\* `order`, at relative second ts: the formatter and the entry afterwards,
\* and what the call returned.
FormatCall(f, entry, order, ts) ==
  LET keys == collectKeys(f, order)
      e1 == [entry EXCEPT !.Data = prefixFieldClashes(entry.Data)]
      f1 == OnceDo(f, entry)
      tail == FormatTail(f1, e1, keys, ts)
  IN [f |-> f1, entry |-> tail.entry, ret |-> tail.ret]

\* ------------------------------------------------------------- inputs
\* Width used when SpacePadding is set.
MaxPadding == 6
\* Longest buffer content an entry may hold for Format to be called on it.
MaxBuffer == 1

kA == <<"a">>

\* The field mappings of the entries.
NoData == [k \in {} |-> Str(<<>>)]
DataMsg == [k \in {kMsg, kA} |-> IF k = kMsg THEN Str(<<"x"," ","y">>) ELSE Err(<<"o","k">>)]
DataTime ==
  [k \in {kTime, kFields \o kTime} |-> IF k = kTime THEN Str(<<"u">>) ELSE Str(<<>>)]
DataPrefix ==
  [k \in {kPrefix, kLevel} |-> IF k = kPrefix THEN Str(<<"d","b">>) ELSE Oth(<<"1">>)]

Entry(t, lv, msg, data, logger, buf) ==
  [Time |-> t, Level |-> lv, Message |-> msg, Data |-> data, Logger |-> logger,
   Buffer |-> buf]

\* The entries the framework hands to Format.
Entries ==
  { Entry(1, "Info", <<"h","i">>, NoData, "nil", NilBuffer),
    Entry(2, "Warn", <<"[","p","]"," ","m">>, DataMsg, "tty", NilBuffer),
    Entry(2, "Warn", <<"[","p","]"," ","m">>, DataMsg, "file", Buffer(<<"x">>)),
    Entry(1, "Debug", <<>>, DataTime, "file", NilBuffer),
    Entry(2, "Error", <<"m">>, DataPrefix, "tty", NilBuffer) }

\* The schemes handed to SetColorScheme: every style set, and only one set.
FullScheme ==
  [InfoLevel |-> "blue", WarnLevel |-> "red", ErrorLevel |-> "yellow",
   FatalLevel |-> "yellow", PanicLevel |-> "yellow", DebugLevel |-> "green",
   Prefix |-> "green", Timestamp |-> "cyan"]
PartialScheme == [r \in Roles |-> IF r = "InfoLevel" THEN "cyan" ELSE ""]
Schemes == {FullScheme, PartialScheme}

\* The formatters an application constructs: every combination of the flags.
Formatters ==
  [ForceColors : BOOLEAN, DisableColors : BOOLEAN, DisableTimestamp : BOOLEAN,
   ShortTimestamp : BOOLEAN, TimestampFormat : {<<>>, CustomTimestampFormat},
   DisableSorting : BOOLEAN, QuoteEmptyFields : BOOLEAN, QuoteCharacter : {<<>>},
   SpacePadding : {0, MaxPadding}, colorScheme : {NilScheme},
   isTerminal : {FALSE}, done : {FALSE}]

\* -------------------------------------------------------------- state
VARIABLES
  f,           \* the TextFormatter
  entry,       \* the entry the framework holds
  origData,    \* entry.Data as the framework constructed it
  result,      \* what the last Format call on this entry returned, with its inputs
  schemeArg,   \* the argument of the last SetColorScheme call
  firstLogger, \* the Logger of the first entry formatted
  ref,         \* SpecIdem: an earlier Format call, remembered for comparison
  pc,          \* SpecConc: where each goroutine is in Format
  loc,         \* SpecConc: each goroutine's entry, keys and return value
  mu,          \* SpecConc: the holder of the Once's mutex, 0 when free
  initRuns,    \* SpecConc: how often the body of init was entered and left
  pmsg,        \* SpecPrefix: the message
  pres         \* SpecPrefix: what extractPrefix returned for it

vars == <<f, entry, origData, result, schemeArg, firstLogger, ref, pc, loc, mu,
          initRuns, pmsg, pres>>

None == [none |-> TRUE]

Goroutines == 1..NumGoroutines

concVars == <<pc, loc, mu, initRuns>>
prefixVars == <<pmsg, pres>>
seqVars == <<entry, origData, result, schemeArg, firstLogger>>

ConcIdle ==
  /\ pc = [g \in Goroutines |-> "idle"]
  /\ loc = [g \in Goroutines |-> None]
  /\ mu = 0
  /\ initRuns = [entered |-> 0, left |-> 0]

PrefixIdle == pmsg = <<>> /\ pres = None

\* A formatter as constructed, an entry, no call made yet.
InitFrom(formatters, entries) ==
  /\ f \in formatters
  /\ entry \in entries
  /\ origData = entry.Data
  /\ result = None
  /\ schemeArg = None
  /\ firstLogger = "none"
  /\ ref = None
  /\ ConcIdle
  /\ PrefixIdle

Init == InitFrom(Formatters, Entries)

\* The framework constructs another entry.
NewEntryFrom(entries) ==
  /\ \E e \in entries : entry' = e /\ origData' = e.Data
  /\ result' = None
  /\ UNCHANGED <<f, schemeArg, firstLogger, ref, concVars, prefixVars>>

NewEntry == NewEntryFrom(Entries)

\* func (f *TextFormatter) SetColorScheme(colorScheme *ColorScheme)
SetColorSchemeFrom(schemes) ==
  /\ \E s \in schemes :
       /\ f' = [f EXCEPT !.colorScheme = compileColorScheme(s)]
       /\ schemeArg' = s
  /\ result' = None
  /\ UNCHANGED <<entry, origData, firstLogger, ref, concVars, prefixVars>>

SetColorScheme == SetColorSchemeFrom(Schemes)

\* func (f *TextFormatter) Format(entry *logrus.Entry) ([]byte, error)
Format ==
  /\ Len(entry.Buffer.bytes) <= MaxBuffer
  /\ \E order \in Orders(DOMAIN entry.Data), ts \in 0..MaxTS :
       LET call == FormatCall(f, entry, order, ts) IN
       /\ f' = call.f
       /\ entry' = call.entry
       /\ result' = call.ret @@ [entry |-> entry, scheme |-> f.colorScheme]
  /\ firstLogger' = IF firstLogger = "none" THEN entry.Logger ELSE firstLogger
  /\ UNCHANGED <<origData, schemeArg, ref, concVars, prefixVars>>

Next == NewEntry \/ SetColorScheme \/ Format

Spec == Init /\ [][Next]_vars

\* ------------------------------------------------- SpecIdem: two calls
\* The same machine with one more step, which remembers the call just made,
\* so that a later call can be compared with it.
IdemFormatters ==
  {fm \in Formatters :
     /\ ~fm.DisableColors /\ ~fm.QuoteEmptyFields
     /\ fm.TimestampFormat = <<>> /\ fm.SpacePadding = 0}

IdemEntries ==
  { Entry(1, "Info", <<"h","i">>, NoData, "nil", NilBuffer),
    Entry(2, "Warn", <<"[","p","]"," ","m">>, DataMsg, "tty", NilBuffer),
    Entry(2, "Warn", <<"[","p","]"," ","m">>, DataMsg, "file", Buffer(<<"x">>)),
    Entry(2, "Warn", <<"[","p","]"," ","m">>, DataMsg, "file", Buffer(<<>>)) }

InitIdem == InitFrom(IdemFormatters, IdemEntries)

NewEntryIdem == NewEntryFrom(IdemEntries)

SetColorSchemeIdem == SetColorSchemeFrom({FullScheme})

Remember ==
  /\ result # None /\ ref # result
  /\ ref' = result
  /\ UNCHANGED <<f, seqVars, concVars, prefixVars>>

NextIdem == NewEntryIdem \/ SetColorSchemeIdem \/ Format \/ Remember

SpecIdem == InitIdem /\ [][NextIdem]_vars

\* --------------------------------------------- SpecPrefix: extractPrefix
PrefixAlphabet == {"[", "]", "a", " ", "\n"}

Messages == UNION {[1..n -> PrefixAlphabet] : n \in 0..MaxMsgLen}

InitPrefix ==
  /\ f = [ForceColors |-> FALSE, DisableColors |-> FALSE, DisableTimestamp |-> FALSE,
          ShortTimestamp |-> FALSE, TimestampFormat |-> <<>>, DisableSorting |-> FALSE,
          QuoteEmptyFields |-> FALSE, QuoteCharacter |-> <<>>, SpacePadding |-> 0,
          colorScheme |-> NilScheme, isTerminal |-> FALSE, done |-> FALSE]
  /\ entry = Entry(1, "Info", <<>>, NoData, "nil", NilBuffer)
  /\ origData = entry.Data
  /\ result = None /\ schemeArg = None /\ firstLogger = "none" /\ ref = None
  /\ ConcIdle
  /\ pmsg \in Messages
  /\ pres = None

\* prefixValue, trimmedMsg := extractPrefix(entry.Message)
ExtractPrefix ==
  /\ pres = None
  /\ pres' = extractPrefix(pmsg)
  /\ UNCHANGED <<f, seqVars, ref, concVars, pmsg>>

NextPrefix == ExtractPrefix

SpecPrefix == InitPrefix /\ [][NextPrefix]_vars

\* ------------------------------------- SpecConc: concurrent Format calls
\* Several goroutines call Format on one formatter, each with an entry of
\* its own.  f.Do is sync.Once's Do: a load of done; when it is 0, the
\* mutex, a second look at done, the function, the store of done (deferred,
\* so before the unlock), the unlock.
ConcFormatters ==
  {[fm EXCEPT !.colorScheme = compileColorScheme(FullScheme)] :
     fm \in {x \in IdemFormatters : ~x.DisableTimestamp /\ ~x.ShortTimestamp}}

ConcEntries ==
  { Entry(1, "Info", <<"h","i">>, NoData, "nil", NilBuffer),
    Entry(2, "Warn", <<"[","p","]"," ","m">>, DataMsg, "tty", NilBuffer),
    Entry(1, "Debug", <<>>, DataTime, "file", NilBuffer) }

InitConc ==
  /\ f \in ConcFormatters
  /\ entry = Entry(1, "Info", <<>>, NoData, "nil", NilBuffer)
  /\ origData = entry.Data
  /\ result = None /\ schemeArg = None /\ firstLogger = "none" /\ ref = None
  /\ pc = [g \in Goroutines |-> "idle"]
  /\ loc \in [Goroutines -> {[entry |-> e, keys |-> <<>>, ret |-> None] : e \in ConcEntries}]
  /\ mu = 0
  /\ initRuns = [entered |-> 0, left |-> 0]
  /\ PrefixIdle

\* A mutation of the mutex: Lock never waits.
MutexNeverHeld(m) == TRUE

\* o.m.Lock() returns when no goroutine holds the mutex.
MutexFree(m) == m = 0

Goto(g, label) == pc' = [pc EXCEPT ![g] = label]

\* Lines 134-149: the keys, the buffer, prefixFieldClashes(entry.Data).
Begin(g) ==
  /\ pc[g] = "idle"
  /\ \E order \in Orders(DOMAIN loc[g].entry.Data) :
       loc' = [loc EXCEPT ![g].keys = collectKeys(f, order),
                          ![g].entry.Data = prefixFieldClashes(loc[g].entry.Data)]
  /\ Goto(g, "do")
  /\ UNCHANGED <<f, seqVars, ref, mu, initRuns, prefixVars>>

\* Once.Do: if o.done.Load() == 0 { o.doSlow(f) }
DoLoad(g) ==
  /\ pc[g] = "do"
  /\ Goto(g, IF f.done THEN "after" ELSE "lock")
  /\ UNCHANGED <<f, seqVars, ref, loc, mu, initRuns, prefixVars>>

\* doSlow: o.m.Lock()
DoLock(g) ==
  /\ pc[g] = "lock"
  /\ MutexFree(mu)
  /\ mu' = g
  /\ Goto(g, "slow")
  /\ UNCHANGED <<f, seqVars, ref, loc, initRuns, prefixVars>>

\* doSlow: if o.done.Load() == 0 { defer o.done.Store(1); f() }
DoSlow(g) ==
  /\ pc[g] = "slow"
  /\ Goto(g, IF f.done THEN "unlock" ELSE "initQuote")
  /\ UNCHANGED <<f, seqVars, ref, loc, mu, initRuns, prefixVars>>

\* init, lines 121-123
InitQuote(g) ==
  /\ pc[g] = "initQuote"
  /\ f' = initQuoteCharacter(f)
  /\ initRuns' = [initRuns EXCEPT !.entered = @ + 1]
  /\ Goto(g, "initTerminal")
  /\ UNCHANGED <<seqVars, ref, loc, mu, prefixVars>>

\* init, lines 124-126
InitTerminal(g) ==
  /\ pc[g] = "initTerminal"
  /\ f' = initIsTerminal(f, loc[g].entry)
  /\ initRuns' = [initRuns EXCEPT !.left = @ + 1]
  /\ Goto(g, "store")
  /\ UNCHANGED <<seqVars, ref, loc, mu, prefixVars>>

\* doSlow's deferred o.done.Store(1)
DoStore(g) ==
  /\ pc[g] = "store"
  /\ f' = [f EXCEPT !.done = TRUE]
  /\ Goto(g, "unlock")
  /\ UNCHANGED <<seqVars, ref, loc, mu, initRuns, prefixVars>>

\* doSlow's deferred o.m.Unlock()
DoUnlock(g) ==
  /\ pc[g] = "unlock"
  /\ mu' = 0
  /\ Goto(g, "after")
  /\ UNCHANGED <<f, seqVars, ref, loc, initRuns, prefixVars>>

\* Lines 153-175: isColored, the line, the return.
Finish(g) ==
  /\ pc[g] = "after"
  /\ \E ts \in 0..MaxTS :
       LET tail == FormatTail(f, loc[g].entry, loc[g].keys, ts) IN
       loc' = [loc EXCEPT ![g].entry = tail.entry, ![g].ret = tail.ret]
  /\ Goto(g, "done")
  /\ UNCHANGED <<f, seqVars, ref, mu, initRuns, prefixVars>>

NextConc ==
  \E g \in Goroutines :
    \/ Begin(g) \/ DoLoad(g) \/ DoLock(g) \/ DoSlow(g) \/ InitQuote(g)
    \/ InitTerminal(g) \/ DoStore(g) \/ DoUnlock(g) \/ Finish(g)

SpecConc == InitConc /\ [][NextConc]_vars

\* ------------------------------------------------------------- claims
HasSub(text, needle) ==
  \E i \in 0..(Len(text) - Len(needle)) : SubSeq(text, i + 1, i + Len(needle)) = needle

IsSuffix(tail, text) ==
  /\ Len(tail) <= Len(text)
  /\ SubSeq(text, Len(text) - Len(tail) + 1, Len(text)) = tail

Returned == result # None /\ ~result.panicked

\* C2: Format never fails: every call, also one on a formatter that
\* SetColorScheme was never called on and that takes the colorized path,
\* returns its bytes with a nil error.
C2_FormatNeverFails ==
  result # None => (~result.panicked /\ result.err = "nil")

ReservedShown(n) ==
  CASE n = kLevel ->
         HasSub(result.out, IF result.colored THEN levelText(result.entry.Level)
                            ELSE LevelString(result.entry.Level))
    [] n = kMsg -> HasSub(result.out, result.entry.Message)
    [] n = kTime ->
         \/ f.DisableTimestamp
         \/ result.colored /\ f.ShortTimestamp
         \/ HasSub(result.out, TimeFormat(result.entry.Time, timestampFormat(f)))

\* C3: when the entry's mapping holds a key time, msg or level, the line
\* holds the framework's own value and a pair fields.<name>=<user value>.
C3_ClashShowsBoth ==
  Returned =>
    \A n \in {kTime, kMsg, kLevel} \cap DOMAIN result.entry.Data :
      LET v == result.entry.Data[n] IN
      /\ ReservedShown(n)
      /\ \/ HasSub(result.out, kFields \o n \o <<"=">> \o v.text)
         \/ HasSub(result.out, kFields \o n \o <<"=">> \o GoQuote(v.text))

Ascending(S) ==
  CHOOSE o \in Orders(S) :
    \A i, j \in 1..Cardinality(S) : i < j => StrLess(o[i], o[j])

RECURSIVE FieldsText(_)
FieldsText(keys) ==
  IF keys = <<>> THEN <<>>
  ELSE (IF result.colored
          THEN coloredPair(f.colorScheme[LevelRole(entry.Level)], Head(keys),
                           entry.Data[Head(keys)])
          ELSE appendKeyValue(f, Head(keys), entry.Data[Head(keys)]))
       \o FieldsText(Tail(keys))

UserKeys ==
  IF result.colored THEN (DOMAIN result.entry.Data) \ {kPrefix}
  ELSE DOMAIN result.entry.Data

\* C5: with DisableSorting false the line ends with the user fields in
\* ascending order of their keys, in the plain and in the colorized path.
C5_FieldsAscending ==
  (Returned /\ ~f.DisableSorting) =>
    IsSuffix(FieldsText(Ascending(UserKeys)) \o <<"\n">>, result.out)

C5_Witness ==
  /\ Returned /\ ~f.DisableSorting /\ result.colored
  /\ Cardinality(UserKeys) >= 2
  /\ kFields \o kMsg \in UserKeys

\* C6: SetColorScheme's compilation resolves a role from the scheme's style
\* when it is set and from the default scheme's style when it is unset.
C6_UnsetRolesUseDefault ==
  schemeArg # None =>
    \A r \in Roles :
      f.colorScheme[r] =
        ColorFunc(IF schemeArg[r] # "" THEN schemeArg[r] ELSE defaultStyles[r])

\* C7: in the plain path a string or error value is written raw when
\* needsQuoting is false of its text and wrapped in quotes when it is true.
C7_QuotedWhenNeeded ==
  (Returned /\ ~result.colored) =>
    \A k \in DOMAIN result.entry.Data :
      LET v == entry.Data[k] IN
      v.kind \in {"string", "error"} =>
        HasSub(result.out,
               k \o <<"=">>
               \o (IF needsQuoting(f, v.text)
                     THEN f.QuoteCharacter \o v.text \o f.QuoteCharacter
                     ELSE v.text)
               \o <<" ">>)

\* C9: a call is colorized exactly when (ForceColors or the terminal flag)
\* and not DisableColors, the terminal flag being what the first formatted
\* entry's destination was probed as, whatever later entries carry.
C9_ColoredByFirstProbe ==
  /\ firstLogger # "none" => f.isTerminal = IsTerminal(firstLogger)
  /\ result # None =>
       result.colored = ((f.ForceColors \/ IsTerminal(firstLogger)) /\ ~f.DisableColors)

C9_Witness ==
  /\ result # None /\ firstLogger = "tty" /\ result.entry.Logger = "file"
  /\ ~f.ForceColors /\ result.colored

\* C10: Format only adds keys to the entry's mapping: every key it held
\* keeps its value, and the keys added are fields.time, fields.msg and
\* fields.level.
C10_OnlyAddsKeys ==
  /\ \A k \in DOMAIN origData : k \in DOMAIN entry.Data /\ entry.Data[k] = origData[k]
  /\ (DOMAIN entry.Data) \ (DOMAIN origData)
       \subseteq {kFields \o kTime, kFields \o kMsg, kFields \o kLevel}

SameEntry(a, b) ==
  /\ a.Time = b.Time /\ a.Level = b.Level /\ a.Message = b.Message
  /\ a.Data = b.Data /\ a.Buffer.bytes = b.Buffer.bytes

\* The bytes a call returned with the four digits of miniTS() blanked.
MaskTS(r) ==
  IF r.colored /\ ~r.panicked /\ ~f.DisableTimestamp /\ f.ShortTimestamp
    THEN LET at == Len(r.entry.Buffer.bytes) + 2 IN
         [i \in 1..Len(r.out) |-> IF i > at /\ i <= at + 4 THEN "#" ELSE r.out[i]]
    ELSE r.out

Comparable ==
  /\ ref # None /\ result # None
  /\ SameEntry(ref.entry, result.entry)
  /\ ref.scheme = result.scheme

\* C4: two calls on the same formatter configuration (flags and
\* color scheme) with entries equal in time, level, message and fields, and
\* holding the same buffer content, return the same bytes apart from the
\* relative-seconds digits.
C4_Idempotent ==
  Comparable => (ref.panicked = result.panicked /\ MaskTS(ref) = MaskTS(result))

\* C4, amended: the same, provided DisableSorting is false.
C4_IdempotentWhenSorted ==
  (Comparable /\ ~f.DisableSorting) =>
    (ref.panicked = result.panicked /\ MaskTS(ref) = MaskTS(result))

C4_Witness ==
  /\ Comparable /\ ~f.DisableSorting /\ ~result.panicked
  /\ ref.entry.Logger # result.entry.Logger
  /\ Cardinality(DOMAIN result.entry.Data) >= 2
  /\ ref.out # result.out

Closes == {i \in 2..Len(pmsg) : pmsg[i] = "]"}
FirstClose == CHOOSE i \in Closes : \A j \in Closes : i <= j
Bracketed == pmsg # <<>> /\ pmsg[1] = "[" /\ Closes # {}

Trimmed(s) ==
  LET solid == {i \in 1..Len(s) : ~IsSpace(s[i])} IN
  IF solid = {} THEN <<>>
  ELSE SubSeq(s, CHOOSE i \in solid : \A j \in solid : i <= j,
                 CHOOSE i \in solid : \A j \in solid : i >= j)

PrefixIsFirstBracket ==
  /\ pres.prefix = SubSeq(pmsg, 2, FirstClose - 1)
  /\ pres.msg = Trimmed(SubSeq(pmsg, FirstClose + 1, Len(pmsg)))

PrefixLeftAlone == pres = [prefix |-> <<>>, msg |-> pmsg]

\* C8: a message that starts with "[" and holds a later "]" gives
\* the text between "[" and the first "]" as prefix and the trimmed rest as
\* remainder; any other message gives the empty prefix and itself.
C8_ExtractPrefix ==
  pres # None => IF Bracketed THEN PrefixIsFirstBracket ELSE PrefixLeftAlone

NoNewlineInside == \A j \in 2..(FirstClose - 1) : pmsg[j] # "\n"

\* C8, amended: the bracket is taken only when no newline stands between
\* the "[" and the first "]"; a message whose bracket spans a newline is
\* left alone like any other.
C8_ExtractPrefixOneLine ==
  pres # None =>
    IF Bracketed /\ NoNewlineInside THEN PrefixIsFirstBracket ELSE PrefixLeftAlone

C8_Witness ==
  /\ pres # None /\ Bracketed /\ NoNewlineInside
  /\ Cardinality(Closes) >= 2
  /\ pres.prefix = <<"a">>

PastDo(g) == pc[g] \in {"after", "done"}

\* C1: however the goroutines interleave, the body of init is run once and
\* no more, and no call computes isColored or writes its line before that
\* run has finished.
C1_InitOnceBeforeUse ==
  /\ initRuns.entered <= 1
  /\ \A g \in Goroutines :
       PastDo(g) =>
         /\ initRuns = [entered |-> 1, left |-> 1]
         /\ f.done /\ f.QuoteCharacter = <<"\"">>

C1_Witness ==
  \E g, h \in Goroutines :
    /\ pc[g] = "done" /\ pc[h] = "slow"
    /\ initRuns = [entered |-> 1, left |-> 1]
    /\ loc[g].entry.Logger # loc[h].entry.Logger

====
